---- MODULE Spec2Model ----
(***************************************************************************)
(* A model of the legal-text acquisition pipeline: the content store       *)
(* (database.py), the scraper orchestrator (legal_scrapers.py) and the     *)
(* scheduler (scheduler.py).                                               *)
(***************************************************************************)
EXTENDS Integers, Sequences, FiniteSets, TLC

(***************************************************************************)
(* Bounds of the model.                                                    *)
(***************************************************************************)
MaxDay == 1
MaxSaves == 2
MaxPurges == 1
NumScrapers == 2
MaxStarts == 2
MaxJobs == 1
MaxApplies == 2
MaxRuns == 2
MaxPages == 3
MaxWords == 2

(***************************************************************************)
(* Program constants: the separator between date and time in the two text  *)
(* renderings of a datetime (character codes of ' ' and 'T').              *)
(***************************************************************************)
SpaceChar == 32
TChar == 84

URLs == {"u1", "u2"}
Hashes == {"h1", "h2"}
Titles == {"t1", "t2"}
Writers == {"w1", "w2"}

\* The values of limit_per_scraper the model draws.
Limits == 1..2

\* The document pages a source's listing page links.
Pages == {"p1", "p2"}

\* How many pages of one adapter run may fail to load.
PageErrorCounts == 0..1

\* The times of day the model tells apart: morning and evening.
Tods == 0..1

VARIABLES
    rows,        \* table legal_texts: the committed rows
    now,         \* datetime.now()
    nSaves,      \* number of save_legal_text calls made so far
    nPurges,     \* number of cleanup_old_data calls made so far
    attempted,   \* content hashes some earlier save_legal_text call carried
    trues,       \* per content hash, how many saves returned True
    lastSave,    \* the latest save_legal_text call and what it returned
    lastPurge,   \* the latest cleanup_old_data call and what it returned
    wpc,         \* per concurrent writer, its position in save_legal_text
    wrec,        \* per concurrent writer, the LegalText it saves
    wcount,      \* per concurrent writer, cursor.rowcount of its INSERT
    wres,        \* per concurrent writer, the value save_legal_text returned
    lock,        \* the connection holding the engine's write lock, or "none"
    rows0,       \* the rows the store held before the concurrent writers ran
    scraper,     \* per registered adapter: scraped_count, saved_count, errors
    sessions,    \* table scraping_logs, in insertion order
    run,         \* the run_all_scrapers call in progress: position and results
    config,      \* ScrapingScheduler.config, as load_config returned it
    config_file, \* the configuration file at config_path
    is_running,  \* ScrapingScheduler.is_running
    jobs,        \* schedule.jobs: the registered triggers, in registration order
    loops,       \* the polling threads start() has spawned, in spawning order
    runLog,      \* scraping_runs.jsonl, one entry per line
    healthLog,   \* health_checks.jsonl, one entry per line
    backups,     \* number of backup copies of the store
    last_run_results, \* ScrapingScheduler.last_run_results
    jobStats,    \* how many jobs were executed, and with which outcome
    lastJob,     \* the latest job execution and what it returned
    lastProc,    \* the latest process_unprocessed_texts call and its summary
    doc,         \* a LegalText in the hands of process_text, and its history
    lastScrape,  \* the latest adapter run: the pages it met and what it returned
    lastCat,     \* the latest categorize_text call and what it returned
    overlap      \* per thread calling run_all_scrapers: its position and locals

storeVars == <<rows, now, nSaves, nPurges, attempted, trues, lastSave, lastPurge>>
raceVars == <<wpc, wrec, wcount, wres, lock, rows0>>
orchVars == <<scraper, sessions, run>>
\* What the store's own operations never touch.
schedVars == <<config, config_file, is_running, jobs, loops, runLog, healthLog, backups,
               last_run_results, jobStats, lastJob>>
procVars == <<lastProc, doc, lastScrape, lastCat, overlap>>
restVars == <<orchVars, schedVars, procVars>>
vars == <<storeVars, raceVars, orchVars, schedVars, procVars>>

(***************************************************************************)
(* Datetimes and their text renderings.  A datetime is a calendar day and  *)
(* a time of day.  The date part of both renderings is the fixed-width     *)
(* YYYY-MM-DD and the time part the fixed-width HH:MM:SS[.ffffff], so each *)
(* part is one symbol here, ordered as the text is.                        *)
(***************************************************************************)
Datetimes == [day : 0..MaxDay, tod : Tods]

\* The text the storage driver binds for a datetime parameter: isoformat(" ").
adapt_datetime(dt) == <<dt.day, SpaceChar, dt.tod>>

\* datetime.isoformat(): date and time separated by "T".
isoformat(dt) == <<dt.day, TChar, dt.tod>>

\* datetime.fromisoformat() accepts either separator.
fromisoformat(text) == [day |-> text[1], tod |-> text[3]]

\* The engine's comparison of two TEXT values (bytewise, left to right).
RECURSIVE TextLess(_, _)
TextLess(a, b) ==
    IF a = <<>> THEN b # <<>>
    ELSE IF b = <<>> THEN FALSE
    ELSE IF Head(a) # Head(b) THEN Head(a) < Head(b)
    ELSE TextLess(Tail(a), Tail(b))

\* datetime - timedelta(days=days)
MinusDays(dt, days) == [day |-> dt.day - days, tod |-> dt.tod]

\* dt1 is an earlier instant than dt2
Earlier(dt1, dt2) ==
    \/ dt1.day < dt2.day
    \/ dt1.day = dt2.day /\ dt1.tod < dt2.tod

(***************************************************************************)
(* LegalText and the legal_texts table.                                    *)
(***************************************************************************)
\* LegalText(...) with __post_init__: date_scraped defaults to datetime.now()
LegalText(title, url, hash, clock) ==
    [title |-> title, url |-> url, content_hash |-> hash, date_scraped |-> clock]

\* The parameter tuple of the INSERT: the datetime is bound as text.
InsertParams(lt) ==
    [lt EXCEPT !.date_scraped = adapt_datetime(lt.date_scraped)]

\* A variant of Conflicts: content_hash is the only UNIQUE column.
ConflictsHashOnly(rs, row) ==
    \E r \in rs : r.content_hash = row.content_hash

\* The UNIQUE constraints of legal_texts: url and content_hash.
Conflicts(rs, row) ==
    \E r \in rs : r.url = row.url \/ r.content_hash = row.content_hash

\* A variant of InsertOrIgnore: INSERT OR REPLACE.
InsertOrReplace(rs, row) ==
    [rows |-> {r \in rs : r.url # row.url /\ r.content_hash # row.content_hash}
                \cup {row},
     rowcount |-> 1]

\* INSERT OR IGNORE INTO legal_texts: the new table and cursor.rowcount.
InsertOrIgnore(rs, row) ==
    IF Conflicts(rs, row)
    THEN [rows |-> rs, rowcount |-> 0]
    ELSE [rows |-> rs \cup {row}, rowcount |-> 1]

\* save_legal_text: raises says whether the engine raised inside the try.
save_legal_text(rs, lt, raises) ==
    IF raises
    THEN [rows |-> rs, success |-> FALSE]
    ELSE LET r == InsertOrIgnore(rs, InsertParams(lt))
         IN  [rows |-> r.rows, success |-> r.rowcount > 0]

\* DELETE FROM legal_texts WHERE date_scraped < ? with cutoff_date.isoformat()
PurgeSelected(rs, cutoff) ==
    {r \in rs : TextLess(r.date_scraped, isoformat(cutoff))}

\* cleanup_old_data(days_to_keep)
cleanup_old_data(rs, clock, days, raises) ==
    IF raises
    THEN [rows |-> rs, deleted_count |-> 0]
    ELSE LET gone == PurgeSelected(rs, MinusDays(clock, days))
         IN  [rows |-> rs \ gone, deleted_count |-> Cardinality(gone)]

(***************************************************************************)
(* The scheduler's configuration: load_config.  A dict is a function on    *)
(* its keys; rates are held in percent; None is the string "null".         *)
(***************************************************************************)
\* default_config
DefaultConfig ==
    [schedule |-> [day_of_week |-> "monday", time |-> "02:00",
                   timezone |-> "America/Sao_Paulo"],
     scraping |-> [limit_per_scraper |-> 50, max_retries |-> 3,
                   retry_delay_minutes |-> 30],
     database |-> [cleanup_enabled |-> TRUE, days_to_keep |-> 90,
                   backup_enabled |-> TRUE],
     monitoring |-> [email_notifications |-> FALSE, webhook_url |-> "null",
                     alert_thresholds |-> [min_success_rate |-> 70,
                                           max_error_count |-> 10]],
     email |-> [smtp_server |-> "smtp.gmail.com", smtp_port |-> 587,
                sender_email |-> "", sender_password |-> "",
                recipient_emails |-> <<>>]]

\* The configuration files the model draws: no file, and documents that set
\* some keys and omit the others.
ConfigFiles ==
    { [exists |-> FALSE, doc |-> <<>>],
      [exists |-> TRUE,
       doc |-> [monitoring |-> [email_notifications |-> TRUE,
                                webhook_url |-> "https://hook",
                                alert_thresholds |-> [min_success_rate |-> 70,
                                                      max_error_count |-> 0]],
                database |-> [days_to_keep |-> 1],
                email |-> [sender_email |-> "bot@example.org",
                           recipient_emails |-> <<"ops@example.org">>]]],
      [exists |-> TRUE,
       doc |-> [monitoring |-> [email_notifications |-> TRUE,
                                webhook_url |-> "https://hook",
                                alert_thresholds |-> [max_error_count |-> 10]]]],
      [exists |-> TRUE,
       doc |-> [schedule |-> [day_of_week |-> "funday"]]],
      [exists |-> TRUE,
       doc |-> [database |-> [cleanup_enabled |-> FALSE, days_to_keep |-> 1,
                              backup_enabled |-> FALSE],
                notes |-> [owner |-> "ops"]]] }

\* The merge of load_config: a missing section is taken from the defaults; in
\* a present section the missing keys are; deeper levels are left as loaded.
MergeDefaults(loaded) ==
    [key \in DOMAIN loaded \cup DOMAIN DefaultConfig |->
        IF key \notin DOMAIN loaded THEN DefaultConfig[key]
        ELSE IF key \notin DOMAIN DefaultConfig THEN loaded[key]
        ELSE [subkey \in DOMAIN loaded[key] \cup DOMAIN DefaultConfig[key] |->
                 IF subkey \in DOMAIN loaded[key]
                 THEN loaded[key][subkey]
                 ELSE DefaultConfig[key][subkey]]]

\* load_config
load_config(file) ==
    IF file.exists THEN MergeDefaults(file.doc) ELSE DefaultConfig

\* save_config: the file holds the document given.
save_config(cfg) == [exists |-> TRUE, doc |-> cfg]

\* The configuration file as load_config leaves it: a file that was loaded
\* is returned from inside the with block and not written; without a file
\* the defaults are saved.
FileAfterLoad(file) ==
    IF file.exists THEN file ELSE save_config(DefaultConfig)

(***************************************************************************)
(* Initial state of the store: the tables init_database creates are empty. *)
(***************************************************************************)
NoSave ==
    [done |-> FALSE, rec |-> LegalText("t1", "u1", "h1", [day |-> 0, tod |-> 0]),
     success |-> FALSE, raised |-> FALSE, before |-> {}, after |-> {},
     attempted |-> {}]

NoPurge ==
    [done |-> FALSE, before |-> {}, after |-> {},
     cutoff |-> [day |-> 0, tod |-> 0], deleted_count |-> 0, raised |-> FALSE]

InitStore ==
    /\ rows = {}
    /\ now = [day |-> 0, tod |-> 0]
    /\ nSaves = 0
    /\ nPurges = 0
    /\ attempted = {}
    /\ trues = [h \in Hashes |-> 0]
    /\ lastSave = NoSave
    /\ lastPurge = NoPurge

InitRaceIdle ==
    /\ wpc = [w \in Writers |-> "idle"]
    /\ wrec = [w \in Writers |-> NoSave.rec]
    /\ wcount = [w \in Writers |-> 0]
    /\ wres = [w \in Writers |-> FALSE]
    /\ lock = "none"
    /\ rows0 = {}

\* BaseLegalScraper.__init__: the counters of a fresh adapter.
FreshScraper == [scraped_count |-> 0, saved_count |-> 0, errors |-> <<>>]

\* The results dict run_all_scrapers starts from.
EmptyResults ==
    [total_scraped |-> 0, total_saved |-> 0, scraper_results |-> <<>>,
     errors |-> <<>>]

\* LegalScraperManager.__init__: the adapters are registered, no call runs.
InitOrch ==
    /\ scraper = [i \in 1..NumScrapers |-> FreshScraper]
    /\ sessions = <<>>
    /\ run = [pc |-> "idle", idx |-> 0, limit |-> 0, results |-> EmptyResults,
              ran |-> <<>>, truth |-> <<>>, firstSession |-> 1]

NoJob ==
    [done |-> FALSE, kind |-> "none", status |-> "none", escaped |-> FALSE,
     alerts |-> <<>>, email_calls |-> 0, smtp_sends |-> 0, webhook_calls |-> 0,
     logged |-> FALSE, deleted |-> 0, by |-> "none", running |-> FALSE,
     limit |-> 0, asked |-> [given |-> FALSE, value |-> 0]]

\* ScrapingScheduler.__init__: the config is loaded, the scheduler is stopped,
\* nothing is registered and no log file has a line.
InitSched ==
    /\ \E file \in ConfigFiles :
          /\ config = load_config(file)
          /\ config_file = FileAfterLoad(file)
    /\ is_running = FALSE
    /\ jobs = <<>>
    /\ loops = <<>>
    /\ runLog = <<>>
    /\ healthLog = <<>>
    /\ backups = 0
    /\ last_run_results = [status |-> "none"]
    /\ jobStats = [executed |-> 0, scraping |-> 0, logWriteErrors |-> 0]
    /\ lastJob = NoJob

\* LegalTextProcessor.__init__: no call has been made.
NoProc ==
    [done |-> FALSE, runs |-> 0, total_found |-> 0, processed_count |-> 0,
     error_count |-> 0, errors |-> <<>>, completed |-> {}, raised |-> {},
     selected |-> {}, before |-> {}, returned |-> {}]

NoDoc ==
    [state |-> "none", via |-> "none", rec |-> <<>>, before |-> <<>>, heur |-> <<>>,
     resp |-> <<>>, aiCalled |-> FALSE, aiEver |-> FALSE, applied |-> 0]

\* The threads that can execute the scraping job on one scheduler: the
\* polling thread and the thread of a manual trigger.
RunIds == {"scheduled", "manual"}

\* A thread that has not called run_all_scrapers.
IdleRun ==
    [pc |-> "idle", idx |-> 0, legal_texts |-> <<>>, k |-> 0, trues |-> 0,
     reports |-> <<>>]

\* No adapter has run.
NoScrape ==
    [done |-> FALSE, adapter |-> 0, limit |-> 0, index_ok |-> TRUE,
     pages |-> <<>>, returned |-> 0, scraped_count |-> 0, saved_count |-> 0,
     errors |-> 0, session |-> <<>>]

InitProc ==
    /\ lastProc = NoProc
    /\ doc = NoDoc
    /\ lastScrape = NoScrape
    /\ overlap = [r \in RunIds |-> IdleRun]
    /\ lastCat = [done |-> FALSE, title |-> <<>>, text |-> <<>>,
                  category |-> "", again |-> ""]

\* The state after construction of a store and an orchestrator on their own:
\* the scheduler's variables rest at the values of a scheduler with no
\* configuration file.
InitNoFile ==
    /\ InitStore
    /\ InitRaceIdle
    /\ InitOrch
    /\ InitSched
    /\ InitProc
    /\ config = load_config([exists |-> FALSE, doc |-> <<>>])

\* The state after construction.
Init ==
    /\ InitStore
    /\ InitRaceIdle
    /\ InitOrch
    /\ InitSched
    /\ InitProc

(***************************************************************************)
(* Sequential operations of the store.                                     *)
(***************************************************************************)
\* One call of save_legal_text on a LegalText created now.
Save ==
    /\ nSaves < MaxSaves
    /\ \E title \in Titles, url \in URLs, hash \in Hashes, raises \in BOOLEAN :
          LET lt == LegalText(title, url, hash, now)
              res == save_legal_text(rows, lt, raises)
          IN  /\ rows' = res.rows
              /\ lastSave' = [done |-> TRUE, rec |-> lt, success |-> res.success,
                              raised |-> raises, before |-> rows,
                              after |-> res.rows, attempted |-> attempted]
              /\ attempted' = attempted \cup {hash}
              /\ trues' = [trues EXCEPT ![hash] = @ + (IF res.success THEN 1 ELSE 0)]
    /\ nSaves' = nSaves + 1
    /\ UNCHANGED <<now, nPurges, lastPurge, raceVars, restVars>>

\* Time passes.
Tick ==
    /\ \/ /\ now.tod + 1 \in Tods
          /\ now' = [now EXCEPT !.tod = @ + 1]
       \/ /\ now.tod + 1 \notin Tods
          /\ now.day < MaxDay
          /\ now' = [day |-> now.day + 1, tod |-> 0]
    /\ UNCHANGED <<rows, nSaves, nPurges, attempted, trues, lastSave, lastPurge, raceVars,
                   restVars>>

\* One call of cleanup_old_data(days).
Cleanup ==
    /\ nPurges < MaxPurges
    /\ nPurges' = nPurges + 1
    /\ \E days \in 0..now.day, raises \in BOOLEAN :
          LET res == cleanup_old_data(rows, now, days, raises)
          IN  /\ rows' = res.rows
              /\ lastPurge' = [done |-> TRUE, before |-> rows, after |-> res.rows,
                               cutoff |-> MinusDays(now, days),
                               deleted_count |-> res.deleted_count,
                               raised |-> raises]
    /\ UNCHANGED <<now, nSaves, attempted, trues, lastSave, raceVars, restVars>>

\* Any sequence of save_legal_text calls.
NextSave == Save \/ Tick
SpecSave == InitNoFile /\ [][NextSave]_vars

\* Any sequence of saves and purges.
NextStore == Save \/ Tick \/ Cleanup
SpecStore == InitNoFile /\ [][NextStore]_vars

(***************************************************************************)
(* Concurrent writers: save_legal_text step by step, each writer on its    *)
(* own connection.  The engine admits one write transaction at a time: the *)
(* INSERT takes the write lock, commit releases it.  A writer that finds   *)
(* the lock held waits; when its busy timeout runs out the INSERT raises   *)
(* ("database is locked") and save_legal_text returns False.               *)
(***************************************************************************)
\* A variant of WriteLockFree: the engine does not serialise write transactions.
WriteLockIgnored(w) == TRUE

\* The engine grants connection w the write lock.
WriteLockFree(w) == lock = "none"

\* The store before the race: empty, or one row.
SeedStore ==
    /\ nSaves = 0
    /\ \A w \in Writers : wpc[w] = "idle"
    /\ rows = {}
    /\ \E url \in URLs \cup {"u0"}, hash \in Hashes :
          LET lt == LegalText("t1", url, hash, now)
              res == save_legal_text(rows, lt, FALSE)
          IN  /\ rows' = res.rows
              /\ rows0' = res.rows
    /\ nSaves' = nSaves + 1
    /\ UNCHANGED <<now, nPurges, attempted, trues, lastSave, lastPurge, wpc, wrec,
                   wcount, wres, lock, restVars>>

\* A writer calls save_legal_text(lt) and connects.
WCall(w) ==
    /\ wpc[w] = "idle"
    /\ \E title \in Titles, url \in URLs, hash \in Hashes :
          wrec' = [wrec EXCEPT ![w] = LegalText(title, url, hash, now)]
    /\ wpc' = [wpc EXCEPT ![w] = "connected"]
    /\ UNCHANGED <<storeVars, wcount, wres, lock, rows0, restVars>>

\* cursor.execute(INSERT OR IGNORE ...): the write transaction begins.
WExecute(w) ==
    /\ wpc[w] = "connected"
    /\ WriteLockFree(w)
    /\ lock' = w
    /\ wcount' = [wcount EXCEPT ![w] =
                     InsertOrIgnore(rows, InsertParams(wrec[w])).rowcount]
    /\ wpc' = [wpc EXCEPT ![w] = "executed"]
    /\ UNCHANGED <<storeVars, wrec, wres, rows0, restVars>>

\* cursor.execute raises because another connection held the lock too long.
WLocked(w) ==
    /\ wpc[w] = "connected"
    /\ lock # "none"
    /\ lock # w
    /\ wres' = [wres EXCEPT ![w] = FALSE]
    /\ wpc' = [wpc EXCEPT ![w] = "done"]
    /\ UNCHANGED <<storeVars, wrec, wcount, lock, rows0, restVars>>

\* conn.commit(), conn.close() and return success.
WCommit(w) ==
    /\ wpc[w] = "executed"
    /\ rows' = IF wcount[w] > 0 THEN rows \cup {InsertParams(wrec[w])} ELSE rows
    /\ lock' = IF lock = w THEN "none" ELSE lock
    /\ wres' = [wres EXCEPT ![w] = wcount[w] > 0]
    /\ wpc' = [wpc EXCEPT ![w] = "done"]
    /\ UNCHANGED <<now, nSaves, nPurges, attempted, trues, lastSave, lastPurge, wrec,
                   wcount, rows0, restVars>>

NextRace ==
    \/ SeedStore
    \/ \E w \in Writers : WCall(w)
    \/ \E w \in Writers : WExecute(w)
    \/ \E w \in Writers : WLocked(w)
    \/ \E w \in Writers : WCommit(w)

SpecRace == InitNoFile /\ [][NextRace]_vars

(***************************************************************************)
(* The scraper orchestrator: LegalScraperManager.run_all_scrapers.         *)
(* Adapters are named by their position in self.scrapers.                  *)
(***************************************************************************)
\* The candidate lists scrape(limit) may return: the listing page links the
\* pages of Pages, the first limit of them are fetched.
CandSeqs(limit) ==
    UNION {[1..k -> URLs \X Hashes] : k \in {n \in 0..Cardinality(Pages) : n <= limit}}

\* The errors get_page appended: one message per failed page.
PageErrors(n) == [k \in 1..n |-> "page"]

\* Reset scraper stats.
ResetScraper(sc) == [sc EXCEPT !.scraped_count = 0, !.saved_count = 0, !.errors = <<>>]

\* scrape(): every candidate appended counts, every failed page adds an error.
ScrapeCounts(sc, cands, nerr) ==
    [sc EXCEPT !.scraped_count = @ + Len(cands), !.errors = @ \o PageErrors(nerr)]

\* A variant of CountSaved: saved_count counts every save, whatever it returned.
CountSavedAlways(success, n) == n + 1

\* if self.database.save_legal_text(legal_text): scraper.saved_count += 1
CountSaved(success, n) == IF success THEN n + 1 ELSE n

\* for legal_text in legal_texts: save and count.  The save at position failAt
\* raises inside save_legal_text (failAt = 0: none does).
RECURSIVE SaveLoop(_, _, _, _, _)
SaveLoop(rs, lts, failAt, k, saved) ==
    IF k > Len(lts)
    THEN [rows |-> rs, saved_count |-> saved]
    ELSE LET r == save_legal_text(rs, lts[k], k = failAt)
         IN  SaveLoop(r.rows, lts, failAt, k + 1, CountSaved(r.success, saved))

\* error_text = json.dumps(errors) if errors else None
ErrorText(errors) == IF errors = <<>> THEN "NULL" ELSE errors

\* log_scraping_session: one row appended to scraping_logs, unless the engine
\* raises inside the call (then nothing is written and 0 is returned).
log_scraping_session(ss, source, status, items_scraped, items_saved, errors, raises) ==
    IF raises
    THEN ss
    ELSE Append(ss, [source |-> source, status |-> status,
                     items_scraped |-> items_scraped, items_saved |-> items_saved,
                     errors |-> ErrorText(errors)])

\* f with key k set to v (a dict assignment).
SetKey(f, k, v) == [j \in DOMAIN f \cup {k} |-> IF j = k THEN v ELSE f[j]]

\* A variant of AfterScraper: a failure of one adapter ends the whole call.
AbortOnFailure(i, raised) ==
    IF raised THEN [pc |-> "raised", idx |-> i] ELSE [pc |-> "loop", idx |-> i + 1]

\* Where the for loop goes after adapter i, whether or not its try body raised:
\* the except clause catches every Exception, the loop goes on.
AfterScraper(i, raised) == [pc |-> "loop", idx |-> i + 1]

\* What one adapter run does, as drawn by the environment: whether scrape()
\* raises, the candidates it collected, the pages that failed, which save
\* raises inside save_legal_text (0: none) and whether the session insert
\* raises inside log_scraping_session.
Outcomes(limit) ==
    [raises : {FALSE}, cands : CandSeqs(limit), nerr : PageErrorCounts,
     failAt : 0..1, logRaises : BOOLEAN]
      \cup [raises : {TRUE}, cands : CandSeqs(limit), nerr : PageErrorCounts,
            failAt : {0}, logRaises : {FALSE}]

\* The body of the for loop for adapter i: orc holds the store's rows, the
\* adapters' counters, the session table and the results dict.
Iteration(orc, i, out, clock) ==
    LET sc0 == ScrapeCounts(ResetScraper(orc.scraper[i]), out.cands, out.nerr)
    IN  IF out.raises
        THEN [orc EXCEPT !.scraper[i] = sc0,
                         !.results.errors = Append(@, "run")]
        ELSE LET lts == [k \in 1..Len(out.cands) |->
                            LegalText("t1", out.cands[k][1], out.cands[k][2], clock)]
                 sv == SaveLoop(orc.rows, lts, out.failAt, 1, sc0.saved_count)
                 sc == [sc0 EXCEPT !.saved_count = sv.saved_count]
                 res == orc.results
             IN  [rows |-> sv.rows,
                  scraper |-> [orc.scraper EXCEPT ![i] = sc],
                  sessions |-> log_scraping_session(orc.sessions, i, "completed",
                                   sc.scraped_count, sc.saved_count, sc.errors,
                                   out.logRaises),
                  results |->
                      [total_scraped |-> res.total_scraped + sc.scraped_count,
                       total_saved |-> res.total_saved + sc.saved_count,
                       scraper_results |->
                           SetKey(res.scraper_results, i,
                                  [scraped |-> sc.scraped_count,
                                   saved |-> sc.saved_count,
                                   errors |-> Len(sc.errors)]),
                       errors |-> res.errors \o sc.errors]]

\* run_all_scrapers is called: results and start_time are initialised.
StartRun ==
    /\ run.pc = "idle"
    /\ \E limit \in Limits :
          run' = [pc |-> "loop", idx |-> 1, limit |-> limit,
                  results |-> EmptyResults, ran |-> <<>>, truth |-> <<>>,
                  firstSession |-> Len(sessions) + 1]
    /\ UNCHANGED <<storeVars, raceVars, procVars, scraper, sessions, schedVars>>

\* One iteration of the for loop, for the adapter at position run.idx.
RunScraper ==
    /\ run.pc = "loop"
    /\ run.idx <= NumScrapers
    /\ \E out \in Outcomes(run.limit) :
          LET i == run.idx
              orc == Iteration([rows |-> rows, scraper |-> scraper,
                                sessions |-> sessions, results |-> run.results],
                               i, out, now)
              nxt == AfterScraper(i, out.raises)
          IN  /\ out.failAt <= Len(out.cands)
              /\ rows' = orc.rows
              /\ scraper' = orc.scraper
              /\ sessions' = orc.sessions
              /\ run' = [run EXCEPT
                    !.pc = nxt.pc, !.idx = nxt.idx,
                    !.ran = Append(@, i),
                    !.results = orc.results,
                    !.truth = SetKey(@, i,
                        [scraped |-> Len(out.cands),
                         saved |-> Cardinality(orc.rows \ rows),
                         errors |-> PageErrors(out.nerr),
                         raised |-> out.raises,
                         logRaised |-> out.logRaises])]
    /\ UNCHANGED <<now, nSaves, nPurges, attempted, trues, lastSave, lastPurge,
                   raceVars, procVars, schedVars>>

\* The loop is over: duration and timestamp are set, results is returned.
FinishRun ==
    /\ run.pc = "loop"
    /\ run.idx > NumScrapers
    /\ run' = [run EXCEPT !.pc = "done"]
    /\ UNCHANGED <<storeVars, raceVars, procVars, scraper, sessions, schedVars>>

NextOrch == StartRun \/ RunScraper \/ FinishRun
SpecOrch == InitNoFile /\ [][NextOrch]_vars

(***************************************************************************)
(* The scheduler: its jobs.                                                *)
(***************************************************************************)
Has(dict, key) == key \in DOMAIN dict

\* What one adapter can do during a job of the scheduler: find one page,
\* or raise.
JobOutcomes ==
    { [raises |-> FALSE, cands |-> << <<"u1", "h1">> >>, nerr |-> 0,
       failAt |-> 0, logRaises |-> FALSE],
      [raises |-> TRUE, cands |-> <<>>, nerr |-> 0, failAt |-> 0,
       logRaises |-> FALSE] }

\* The for loop of run_all_scrapers from adapter i on.
RECURSIVE RunAll(_, _, _, _)
RunAll(orc, i, outs, clock) ==
    IF i > NumScrapers THEN orc
    ELSE RunAll(Iteration(orc, i, outs[i], clock), i + 1, outs, clock)

\* run_all_scrapers, start to return.
run_all_scrapers(orc, outs, clock) ==
    RunAll([orc EXCEPT !.results = EmptyResults], 1, outs, clock)

\* success_rate < min_success_rate, the threshold held in percent.
LowSuccessRate(total_saved, total_scraped, minPct) ==
    total_saved * 100
        < minPct * (IF total_scraped > 1 THEN total_scraped ELSE 1)

\* send_email_notification: no message is built or handed to the SMTP server
\* when the sender or the recipients are not configured.
EmailSendable(cfg) ==
    cfg.email.sender_email # "" /\ cfg.email.recipient_emails # <<>>

\* save_run_log: one line is appended, unless the write fails.
save_run_log(log, entry, writeFails) ==
    IF writeFails THEN log ELSE Append(log, entry)

\* A job without its except clause: a failure leaves the job as an exception.
JobExceptionUncaught(failed) == failed

\* Whether a failure leaves a job as an exception: every job catches
\* Exception, logs it and returns a value.
JobExceptionEscapes(failed) == FALSE

\* run_scraping_job: orc holds the store's rows, the adapters' counters and
\* the session table.
run_scraping_job(cfg, orc, clock, outs, writeFails) ==
    LET ran == run_all_scrapers(orc, outs, clock)
        res == ran.results
        cl == IF cfg.database.cleanup_enabled
              THEN cleanup_old_data(ran.rows, clock, cfg.database.days_to_keep,
                                    FALSE)
              ELSE [rows |-> ran.rows, deleted_count |-> 0]
        th == cfg.monitoring.alert_thresholds
        keyError == ~Has(th, "min_success_rate") \/ ~Has(th, "max_error_count")
        after == [rows |-> cl.rows, scraper |-> ran.scraper,
                  sessions |-> ran.sessions]
    IN  IF keyError
        THEN [orc |-> after,
              results |-> [status |-> "failed"],
              log |-> <<>>,
              alerts |-> <<>>,
              email_calls |-> IF cfg.monitoring.email_notifications THEN 1 ELSE 0,
              webhook_calls |-> 0,
              deleted |-> cl.deleted_count,
              failed |-> TRUE,
              limit |-> cfg.scraping.limit_per_scraper,
              escaped |-> JobExceptionEscapes(TRUE)]
        ELSE LET low == LowSuccessRate(res.total_saved, res.total_scraped,
                                       th.min_success_rate)
                 high == Len(res.errors) > th.max_error_count
                 alerts == (IF low THEN <<"low_success_rate">> ELSE <<>>)
                             \o (IF high THEN <<"high_error_count">> ELSE <<>>)
                 entry == [status |-> "completed",
                           total_scraped |-> res.total_scraped,
                           total_saved |-> res.total_saved,
                           errors |-> Len(res.errors),
                           alerts |-> alerts]
             IN  [orc |-> after,
                  results |-> entry,
                  log |-> save_run_log(<<>>, entry, writeFails),
                  alerts |-> alerts,
                  email_calls |->
                      IF alerts # <<>> /\ cfg.monitoring.email_notifications
                      THEN 1 ELSE 0,
                  webhook_calls |->
                      IF cfg.monitoring.webhook_url \notin {"null", ""}
                      THEN 1 ELSE 0,
                  deleted |-> cl.deleted_count,
                  failed |-> FALSE,
                  limit |-> cfg.scraping.limit_per_scraper,
                  escaped |-> JobExceptionEscapes(FALSE)]

\* get_database_stats: {} when the query raises.
get_database_stats(rs, clock, raises) ==
    IF raises
    THEN [total_documents |-> 0, recent_documents |-> 0]
    ELSE [total_documents |-> Cardinality(rs),
          recent_documents |->
              Cardinality({r \in rs :
                  ~TextLess(r.date_scraped, isoformat(MinusDays(clock, 7)))})]

\* health_check
health_check(rs, clock, statsRaise, writeFails) ==
    LET stats == get_database_stats(rs, clock, statsRaise)
        health_status ==
            [database_status |->
                 IF stats.total_documents > 0 THEN "healthy" ELSE "empty",
             recent_activity |->
                 IF stats.recent_documents > 0 THEN "active" ELSE "inactive",
             total_documents |-> stats.total_documents]
    IN  IF writeFails
        THEN [log |-> <<>>, status |-> "error", failed |-> TRUE,
              escaped |-> JobExceptionEscapes(TRUE)]
        ELSE [log |-> <<health_status>>, status |-> health_status.database_status,
              failed |-> FALSE, escaped |-> JobExceptionEscapes(FALSE)]

\* database_maintenance: the cleanup is not conditional on cleanup_enabled.
database_maintenance(cfg, rs, clock, backupFails) ==
    LET cl == cleanup_old_data(rs, clock, cfg.database.days_to_keep, FALSE)
        copies == IF cfg.database.backup_enabled /\ ~backupFails THEN 1 ELSE 0
    IN  [rows |-> cl.rows, deleted |-> cl.deleted_count, backups |-> copies,
         failed |-> FALSE, escaped |-> JobExceptionEscapes(FALSE)]

(***************************************************************************)
(* The scheduler: registration of the triggers, start, stop and the        *)
(* polling thread.                                                         *)
(***************************************************************************)
\* The units schedule.every() offers as attributes for a weekly trigger.
WeekDays == {"monday", "tuesday", "wednesday", "thursday", "friday",
             "saturday", "sunday"}

\* The HH:MM strings at() accepts, as far as the model draws them.
ClockTimes == {"01:00", "02:00", "06:00"}

\* schedule_jobs: the scraping trigger is registered first; an unknown unit
\* or a malformed time raises before anything is registered.
schedule_jobs(cfg, registered) ==
    IF cfg.schedule.day_of_week \notin WeekDays
          \/ cfg.schedule.time \notin ClockTimes
    THEN [jobs |-> registered, raised |-> TRUE]
    ELSE [jobs |-> registered \o <<"scraping", "health", "maintenance">>,
          raised |-> FALSE]

NewLoop ==
    [pc |-> "check", queue |-> <<>>, failed |-> FALSE, polled |-> FALSE,
     stopped |-> FALSE]

\* The jobs of js at the positions in S, in registration order.
RECURSIVE Pick(_, _, _)
Pick(js, S, k) ==
    IF k > Len(js) THEN <<>>
    ELSE (IF k \in S THEN <<js[k]>> ELSE <<>>) \o Pick(js, S, k + 1)

\* The number of jobs that are executed or due in some polling thread.
RECURSIVE Queued(_)
Queued(k) == IF k = 0 THEN 0 ELSE Len(loops[k].queue) + Queued(k - 1)
JobsTaken == jobStats.executed + Queued(Len(loops))

\* start()
Start ==
    /\ Len(loops) < MaxStarts
    /\ IF is_running
       THEN UNCHANGED <<is_running, jobs, loops>>
       ELSE LET reg == schedule_jobs(config, jobs)
            IN  /\ is_running' = TRUE
                /\ jobs' = reg.jobs
                /\ loops' = IF reg.raised THEN loops ELSE Append(loops, NewLoop)
    /\ UNCHANGED <<storeVars, raceVars, procVars, orchVars, config, config_file, runLog, healthLog,
                   backups, last_run_results, jobStats, lastJob>>

\* stop()
Stop ==
    /\ is_running' = FALSE
    /\ jobs' = <<>>
    /\ loops' = [l \in DOMAIN loops |-> [loops[l] EXCEPT !.stopped = TRUE]]
    /\ UNCHANGED <<storeVars, raceVars, procVars, orchVars, config, config_file, runLog,
                   healthLog, backups, last_run_results, jobStats, lastJob>>

\* The polling thread tests is_running; when it is set, run_pending collects
\* the triggers that are due.
LoopCheckAt(l) ==
    /\ loops[l].pc = "check"
    /\ IF is_running
       THEN \E S \in SUBSET DOMAIN jobs :
               /\ JobsTaken + Cardinality(S) <= MaxJobs
               /\ loops' = [loops EXCEPT ![l].pc = "pending",
                                         ![l].queue = Pick(jobs, S, 1),
                                         ![l].polled = loops[l].failed]
       ELSE loops' = [loops EXCEPT ![l].pc = "exited"]
    /\ UNCHANGED <<storeVars, raceVars, procVars, orchVars, config, config_file, is_running, jobs,
                   runLog, healthLog, backups, last_run_results, jobStats,
                   lastJob>>

\* The state a polling thread is in after a job: the next due job, or out of
\* the thread when the job let an exception through.
AfterJob(loop, failed, escaped) ==
    [loop EXCEPT !.pc = IF escaped THEN "crashed" ELSE "pending",
                 !.queue = Tail(loop.queue),
                 !.failed = loop.failed \/ failed]

\* The effect of one execution of run_scraping_job on the state.
ScrapingJobStep(j, writeFails, caller, asked) ==
    /\ rows' = j.orc.rows
    /\ scraper' = j.orc.scraper
    /\ sessions' = j.orc.sessions
    /\ runLog' = runLog \o j.log
    /\ last_run_results' = j.results
    /\ jobStats' = [executed |-> jobStats.executed + 1,
                    scraping |-> jobStats.scraping + 1,
                    logWriteErrors |-> jobStats.logWriteErrors
                        + (IF writeFails /\ ~j.failed THEN 1 ELSE 0)]
    /\ lastJob' = [done |-> TRUE, kind |-> "scraping",
                   status |-> j.results.status, escaped |-> j.escaped,
                   alerts |-> j.alerts, email_calls |-> j.email_calls,
                   smtp_sends |-> IF EmailSendable(config) THEN j.email_calls
                                  ELSE 0,
                   webhook_calls |-> j.webhook_calls, logged |-> j.log # <<>>,
                   deleted |-> j.deleted, by |-> caller, running |-> is_running,
                   limit |-> j.limit, asked |-> asked]
    /\ UNCHANGED <<healthLog, backups>>

\* The effect of one execution of health_check on the state.
HealthJobStep(h) ==
    /\ healthLog' = healthLog \o h.log
    /\ jobStats' = [jobStats EXCEPT !.executed = @ + 1]
    /\ lastJob' = [NoJob EXCEPT !.done = TRUE, !.kind = "health",
                                !.status = h.status, !.escaped = h.escaped,
                                !.logged = h.log # <<>>, !.by = "loop",
                                !.running = is_running]
    /\ UNCHANGED <<rows, scraper, sessions, runLog, backups, last_run_results>>

\* The effect of one execution of database_maintenance on the state.
MaintenanceJobStep(m) ==
    /\ rows' = m.rows
    /\ backups' = backups + m.backups
    /\ jobStats' = [jobStats EXCEPT !.executed = @ + 1]
    /\ lastJob' = [NoJob EXCEPT !.done = TRUE, !.kind = "maintenance",
                                !.status = "completed", !.escaped = m.escaped,
                                !.deleted = m.deleted, !.by = "loop",
                                !.running = is_running]
    /\ UNCHANGED <<scraper, sessions, runLog, healthLog, last_run_results>>

\* run_pending runs the next due job in the polling thread.
LoopRunJobAt(l) ==
    /\ loops[l].pc = "pending"
    /\ loops[l].queue # <<>>
    /\ \/ /\ Head(loops[l].queue) = "scraping"
          /\ \E outs \in [1..NumScrapers -> JobOutcomes], writeFails \in BOOLEAN :
                LET j == run_scraping_job(config,
                            [rows |-> rows, scraper |-> scraper,
                             sessions |-> sessions, results |-> EmptyResults],
                            now, outs, writeFails)
                IN  /\ ScrapingJobStep(j, writeFails, "loop", NoJob.asked)
                    /\ loops' = [loops EXCEPT
                                   ![l] = AfterJob(@, j.failed, j.escaped)]
       \/ /\ Head(loops[l].queue) = "health"
          /\ \E statsRaise \in BOOLEAN, writeFails \in BOOLEAN :
                LET h == health_check(rows, now, statsRaise, writeFails)
                IN  /\ HealthJobStep(h)
                    /\ loops' = [loops EXCEPT
                                   ![l] = AfterJob(@, h.failed, h.escaped)]
       \/ /\ Head(loops[l].queue) = "maintenance"
          /\ \E backupFails \in BOOLEAN :
                LET m == database_maintenance(config, rows, now, backupFails)
                IN  /\ MaintenanceJobStep(m)
                    /\ loops' = [loops EXCEPT
                                   ![l] = AfterJob(@, m.failed, m.escaped)]
    /\ UNCHANGED <<now, nSaves, nPurges, attempted, trues, lastSave, lastPurge,
                   raceVars, procVars, run, config, config_file, is_running, jobs>>

\* run_pending has returned: time.sleep(60), then the loop tests again.
LoopSleepAt(l) ==
    /\ loops[l].pc = "pending"
    /\ loops[l].queue = <<>>
    /\ loops' = [loops EXCEPT ![l].pc = "check"]
    /\ UNCHANGED <<storeVars, raceVars, procVars, orchVars, config, config_file, is_running, jobs,
                   runLog, healthLog, backups, last_run_results, jobStats,
                   lastJob>>

\* run_manual_scraping(limit_per_scraper), called with a limit (given) or
\* without: the limit ends in a local variable and run_scraping_job() is
\* called without it; the job runs in the caller's thread.
ManualScraping ==
    /\ JobsTaken < MaxJobs
    /\ \E given \in BOOLEAN, limit_per_scraper \in Limits,
          outs \in [1..NumScrapers -> JobOutcomes], writeFails \in BOOLEAN :
          LET j == run_scraping_job(config,
                      [rows |-> rows, scraper |-> scraper,
                       sessions |-> sessions, results |-> EmptyResults],
                      now, outs, writeFails)
          IN  ScrapingJobStep(j, writeFails, "manual",
                              [given |-> given,
                               value |-> IF given THEN limit_per_scraper ELSE 0])
    /\ UNCHANGED <<now, nSaves, nPurges, attempted, trues, lastSave, lastPurge,
                   raceVars, procVars, run, config, config_file, is_running, jobs, loops>>

\* The weekly maintenance job is executed.
Maintenance ==
    /\ JobsTaken < MaxJobs
    /\ \E backupFails \in BOOLEAN :
          MaintenanceJobStep(database_maintenance(config, rows, now, backupFails))
    /\ UNCHANGED <<now, nSaves, nPurges, attempted, trues, lastSave, lastPurge,
                   raceVars, procVars, run, config, config_file, is_running, jobs,
                   loops>>

LoopCheck == \E l \in DOMAIN loops : LoopCheckAt(l)
LoopRunJob == \E l \in DOMAIN loops : LoopRunJobAt(l)
LoopSleep == \E l \in DOMAIN loops : LoopSleepAt(l)

\* get_status()
get_status ==
    [is_running |-> is_running,
     last_run_results |-> last_run_results,
     config |-> config,
     scheduled_jobs |-> Len(jobs)]

NextSched ==
    \/ Start
    \/ Stop
    \/ LoopCheck
    \/ LoopRunJob
    \/ LoopSleep
    \/ ManualScraping
SpecSched == Init /\ [][NextSched]_vars

\* The jobs of the scheduler over a store that other callers fill while
\* time passes.
NextJobs == Save \/ Tick \/ ManualScraping \/ Maintenance
SpecJobs == Init /\ [][NextJobs]_vars

(***************************************************************************)
(* Two threads inside run_all_scrapers on the same LegalScraperManager: the *)
(* adapters and their counters are the manager's, the list of candidates   *)
(* and the loop positions are each thread's own.  A thread is observed     *)
(* between its reset, its scrape(), each of its saves and its session log. *)
(***************************************************************************)
\* Thread r enters run_all_scrapers: nothing guards the call.
OverlapBegin(r) ==
    /\ overlap[r].pc = "idle"
    /\ overlap' = [overlap EXCEPT ![r] = [IdleRun EXCEPT !.pc = "reset", !.idx = 1]]
    /\ UNCHANGED <<rows, scraper, sessions>>

\* Thread r resets the counters of its current adapter.
OverlapReset(r) ==
    /\ overlap[r].pc = "reset"
    /\ scraper' = [scraper EXCEPT ![overlap[r].idx] = ResetScraper(@)]
    /\ overlap' = [overlap EXCEPT ![r].pc = "scrape"]
    /\ UNCHANGED <<rows, sessions>>

\* Thread r calls scrape(): the candidates are returned to the thread, the
\* count goes to the adapter.
OverlapScrape(r) ==
    /\ overlap[r].pc = "scrape"
    /\ \E cands \in CandSeqs(1) :
          /\ scraper' = [scraper EXCEPT ![overlap[r].idx] = ScrapeCounts(@, cands, 0)]
          /\ overlap' = [overlap EXCEPT
                ![r].pc = "save",
                ![r].legal_texts =
                    [k \in 1..Len(cands) |->
                        LegalText("t1", cands[k][1], cands[k][2], now)],
                ![r].k = 1,
                ![r].trues = 0]
    /\ UNCHANGED <<rows, sessions>>

\* Thread r saves its next candidate and counts it on the adapter.
OverlapSave(r) ==
    /\ overlap[r].pc = "save"
    /\ overlap[r].k <= Len(overlap[r].legal_texts)
    /\ \E sv \in {save_legal_text(rows, overlap[r].legal_texts[overlap[r].k], FALSE)} :
          /\ rows' = sv.rows
          /\ scraper' = [scraper EXCEPT ![overlap[r].idx].saved_count =
                                            CountSaved(sv.success, @)]
          /\ overlap' = [overlap EXCEPT
                ![r].k = @ + 1,
                ![r].trues = IF sv.success THEN @ + 1 ELSE @]
    /\ UNCHANGED sessions

\* Thread r logs the session of its current adapter from the adapter's
\* counters and moves to the next adapter.
OverlapLog(r) ==
    /\ overlap[r].pc = "save"
    /\ overlap[r].k > Len(overlap[r].legal_texts)
    /\ sessions' = log_scraping_session(sessions, overlap[r].idx, "completed",
                       scraper[overlap[r].idx].scraped_count,
                       scraper[overlap[r].idx].saved_count,
                       scraper[overlap[r].idx].errors, FALSE)
    /\ overlap' = [overlap EXCEPT
          ![r].pc = IF overlap[r].idx < NumScrapers THEN "reset" ELSE "done",
          ![r].idx = @ + 1,
          ![r].reports = Append(@,
              [adapter |-> overlap[r].idx,
               scraped |-> scraper[overlap[r].idx].scraped_count,
               saved |-> scraper[overlap[r].idx].saved_count,
               returned |-> Len(overlap[r].legal_texts),
               trues |-> overlap[r].trues])]
    /\ UNCHANGED <<rows, scraper>>

OverlapFrame ==
    UNCHANGED <<now, nSaves, nPurges, attempted, trues, lastSave, lastPurge,
                raceVars, run, schedVars, lastProc, doc, lastScrape, lastCat>>

Begin == \E r \in RunIds : OverlapBegin(r) /\ OverlapFrame
ResetCounters == \E r \in RunIds : OverlapReset(r) /\ OverlapFrame
ScrapeAdapter == \E r \in RunIds : OverlapScrape(r) /\ OverlapFrame
SaveCandidate == \E r \in RunIds : OverlapSave(r) /\ OverlapFrame
LogSession == \E r \in RunIds : OverlapLog(r) /\ OverlapFrame

NextOverlap ==
    Begin \/ ResetCounters \/ ScrapeAdapter \/ SaveCandidate \/ LogSession
SpecOverlap == InitNoFile /\ [][NextOverlap]_vars

(***************************************************************************)
(* The adapters' scrape().  A page is what a link of the index leads to:   *)
(* whether its fetch succeeds, the length of the content extracted from    *)
(* it, and whether its processing raises.                                  *)
(***************************************************************************)
\* The adapters the model keeps, one court and one news site first.
ScraperNames == <<"STF", "ConJur", "STJ", "Migalhas">>

\* if len(content) > 100 (STF, STJ), if len(content) > 200 (ConJur, Migalhas)
MinContentLength(name) == IF name \in {"STF", "STJ"} THEN 100 ELSE 200

ContentLengths == {100, 101, 200, 201}

PageKinds ==
    [fetched : {FALSE}, raises : {FALSE}, length : {100}]
      \cup [fetched : {TRUE}, raises : {TRUE}, length : {100}]
      \cup [fetched : {TRUE}, raises : {FALSE}, length : ContentLengths]

\* The content hash of the page at a URL: each page has a content of its own.
HashOf(url) == IF url = "u1" THEN "h1" ELSE "h2"

LinkedPages == [url : URLs, kind : PageKinds]

PageSeqs == UNION {[1..n -> LinkedPages] : n \in 0..MaxPages}

\* links[:limit]
FirstLinks(pages, limit) ==
    SubSeq(pages, 1, IF Len(pages) < limit THEN Len(pages) ELSE limit)

\* A variant of CountScraped: a page counts once it is fetched.
CountFetched(kept, n) == n + 1

\* self.scraped_count += 1, next to legal_texts.append(legal_text)
CountScraped(kept, n) == IF kept THEN n + 1 ELSE n

\* The body of the for loop over the links: acc holds legal_texts and the
\* adapter's counters.
ScrapePage(acc, name, page, clock) ==
    IF ~page.kind.fetched
    THEN [acc EXCEPT !.scraper.errors = Append(@, "page")]
    ELSE IF page.kind.raises
    THEN [acc EXCEPT !.scraper.errors = Append(@, "processing")]
    ELSE [legal_texts |->
              IF page.kind.length > MinContentLength(name)
              THEN Append(acc.legal_texts,
                          LegalText("t1", page.url, HashOf(page.url), clock))
              ELSE acc.legal_texts,
          scraper |->
              [acc.scraper EXCEPT !.scraped_count =
                  CountScraped(page.kind.length > MinContentLength(name), @)]]

RECURSIVE ScrapeLinks(_, _, _, _)
ScrapeLinks(acc, name, links, clock) ==
    IF links = <<>> THEN acc
    ELSE ScrapeLinks(ScrapePage(acc, name, Head(links), clock), name,
                     Tail(links), clock)

\* scrape(limit): without the index page the adapter returns nothing, with
\* the error get_page recorded.
scrape(sc, name, index_ok, pages, limit, clock) ==
    IF ~index_ok
    THEN [legal_texts |-> <<>>,
          scraper |-> [sc EXCEPT !.errors = Append(@, "page")]]
    ELSE ScrapeLinks([legal_texts |-> <<>>, scraper |-> sc], name,
                     FirstLinks(pages, limit), clock)

\* The counters and the session row after the saves of one adapter.
AfterSaves(ss, i, sc, sv) ==
    [scraper |-> [sc EXCEPT !.saved_count = sv.saved_count],
     rows |-> sv.rows,
     sessions |-> log_scraping_session(ss, i, "completed", sc.scraped_count,
                                       sv.saved_count, sc.errors, FALSE)]

\* The try body of run_all_scrapers for adapter i: reset, scrape, save each
\* candidate, log the session.
AdapterBody(rs, ss, i, sc, got) ==
    AfterSaves(ss, i, got.scraper,
               SaveLoop(rs, got.legal_texts, 0, 1, got.scraper.saved_count))

\* One adapter runs inside run_all_scrapers.
AdapterRun ==
    /\ ~lastScrape.done
    /\ \E i \in 1..NumScrapers, limit \in 1..MaxPages, index_ok \in BOOLEAN,
          pages \in PageSeqs :
          \E got \in {scrape(ResetScraper(scraper[i]), ScraperNames[i],
                             index_ok, pages, limit, now)} :
          \E end \in {AdapterBody(rows, sessions, i, ResetScraper(scraper[i]),
                                  got)} :
              /\ rows' = end.rows
              /\ scraper' = [scraper EXCEPT ![i] = end.scraper]
              /\ sessions' = end.sessions
              /\ lastScrape' =
                    [done |-> TRUE, adapter |-> i, limit |-> limit,
                     index_ok |-> index_ok, pages |-> pages,
                     returned |-> Len(got.legal_texts),
                     scraped_count |-> end.scraper.scraped_count,
                     saved_count |-> end.scraper.saved_count,
                     errors |-> Len(end.scraper.errors),
                     session |-> end.sessions[Len(end.sessions)]]
    /\ UNCHANGED <<now, nSaves, nPurges, attempted, trues, lastSave, lastPurge,
                   raceVars, run, schedVars, lastProc, doc, lastCat, overlap>>

NextScrape == AdapterRun
SpecScrape == InitNoFile /\ [][NextScrape]_vars

(***************************************************************************)
(* The curation processor.  A text is the sequence of its words; a score   *)
(* is held in thousandths.                                                 *)
(***************************************************************************)
Texts == {<<>>, <<"contrato", "civil">>, <<"crime">>}
Sources == {"STF", "ConJur"}
Categories == {"", "Exemplo"}
TagLists == {<<>>, <<"exemplo">>, <<"exemplo", "exemplo">>}

\* hashlib.md5(content).hexdigest()
md5(text) == IF text = <<"contrato", "civil">> THEN "h1" ELSE "h2"

\* LegalText(...) with every field of the dataclass; __post_init__ sets the
\* hash and the word count of a content that is not empty.
\* A variant of PostInitWordCount: the word count is left as given.
GivenWordCount(content, word_count) == word_count

\* __post_init__: if self.content and not self.word_count, the word count
\* is len(self.content.split()).
PostInitWordCount(content, word_count) ==
    IF content # <<>> /\ word_count = 0 THEN Len(content) ELSE word_count

NewLegalText(title, content, source, url, category, tags, clock) ==
    [title |-> title, url |-> url,
     content_hash |-> IF content # <<>> THEN md5(content) ELSE "",
     date_scraped |-> clock,
     content |-> content, source |-> source, category |-> category,
     date_published |-> "null",
     word_count |-> PostInitWordCount(content, 0),
     quality_score |-> 0, is_processed |-> FALSE, tags |-> tags]

\* normalize_legal_formatting: after the substitutions of lines 81-90, line 91
\* hands re.sub the pattern r'[' ']' = "[]", which re rejects with
\* "unterminated character set": the call raises for every text.
normalize_legal_formatting(text) == [raised |-> TRUE, text |-> <<>>]

\* clean_text: "" for an empty text; any other text reaches
\* normalize_legal_formatting.
clean_text(text) ==
    IF text = <<>>
    THEN [raised |-> FALSE, text |-> <<>>]
    ELSE normalize_legal_formatting(text)

\* The words of the model that match legal_patterns['article_reference'].
ArticleRefs == {"art.5"}

\* extract_entities, as the tags process_text builds from it.
extract_entities(text) ==
    IF \E k \in DOMAIN text : text[k] \in ArticleRefs
    THEN <<"articles:Artigo 5">>
    ELSE <<>>

\* The categories of categorize_text the model keeps, in the order of the
\* dict, with their keywords among the words of the model.
CategoryOrder == <<"Constitucional", "Civil", "Penal">>
Keywords ==
    [Constitucional |-> {"constitucional", "stf"},
     Civil |-> {"civil", "contrato"},
     Penal |-> {"penal", "crime", "pena"}]

WordsOf(text) == {text[k] : k \in DOMAIN text}

\* keyword in content: the keyword occurs somewhere in the text, inside a
\* longer word too.
Occurs(keyword, content) ==
    \E w \in WordsOf(content) :
        keyword = w \/ (keyword = "pena" /\ w = "penal")

\* sum(1 for keyword in keywords if keyword in content)
KeywordScore(c, content) ==
    Cardinality({kw \in Keywords[c] : Occurs(kw, content)})

\* The categories with a score above zero that no category outscores, as
\* positions in the table.
TopScored(content) ==
    {k \in DOMAIN CategoryOrder :
        /\ KeywordScore(CategoryOrder[k], content) > 0
        /\ \A j \in DOMAIN CategoryOrder :
              KeywordScore(CategoryOrder[j], content)
                  <= KeywordScore(CategoryOrder[k], content)}

\* A variant of FirstMax: among equal scores the last of the table wins.
LastMax(best) == CHOOSE k \in best : \A j \in best : j <= k

\* max(scores, key=scores.get): among equal scores the first key of the
\* dict, which keeps the order of the table.
FirstMax(best) == CHOOSE k \in best : \A j \in best : k <= j

\* categorize_text: the first category, in dict order, with the most
\* keywords in title + " " + text; "Geral" when no keyword occurs.
categorize_text(text, title) ==
    IF TopScored(title \o text) = {} THEN "Geral"
    ELSE CategoryOrder[FirstMax(TopScored(title \o text))]

\* The words and the texts categorize_text is given on its own.
CatWords == {"civil", "penal", "crime", "contrato", "stf", "texto"}
CatTexts == UNION {[1..n -> CatWords] : n \in 0..MaxWords}

\* categorize_text(text, title) is called.
Categorize ==
    /\ ~lastCat.done
    /\ \E title \in CatTexts, text \in CatTexts :
          lastCat' = [done |-> TRUE, title |-> title, text |-> text,
                      category |-> categorize_text(text, title),
                      again |-> categorize_text(text, title)]
    /\ UNCHANGED <<storeVars, raceVars, orchVars, schedVars,
                   lastProc, doc, lastScrape, overlap>>

NextCat == Categorize
SpecCat == InitNoFile /\ [][NextCat]_vars

\* The legal terms of calculate_enhanced_quality_score among the words of the
\* model.
LegalTerms == {"civil", "penal", "constitucional", "recurso"}

\* The number of characters of a text of the model: five a word.
CharLen(text) == 5 * Len(text)

Min2(a, b) == IF a < b THEN a ELSE b
Max2(a, b) == IF a > b THEN a ELSE b

\* calculate_enhanced_quality_score
calculate_enhanced_quality_score(lt) ==
    LET len_score == IF lt.word_count > 1000 THEN 250
                     ELSE IF lt.word_count > 500 THEN 200
                     ELSE IF lt.word_count > 200 THEN 150
                     ELSE IF lt.word_count > 50 THEN 100
                     ELSE 0
        title_score == IF lt.title = <<>> THEN 0
                       ELSE IF CharLen(lt.title) > 20 THEN 150
                       ELSE IF CharLen(lt.title) > 10 THEN 100
                       ELSE 50
        term_count == Cardinality(LegalTerms \cap WordsOf(lt.content))
        term_score == Min2((term_count * 5000) \div Max2(lt.word_count, 100), 250)
        source_score == IF lt.source \in {"STF", "STJ"} THEN 200
                        ELSE IF lt.source \in {"ConJur", "Migalhas"} THEN 100
                        ELSE 50
        date_score == IF lt.date_published # "null" THEN 50 ELSE 0
        pattern_score == IF extract_entities(lt.content) # <<>> THEN 100 ELSE 0
    IN  Min2(len_score + title_score + term_score + source_score + date_score
               + pattern_score, 1000)

(***************************************************************************)
(* The AI collaborator and enhance_with_ai.                                *)
(***************************************************************************)
Absent == [type |-> "absent", str |-> "", list |-> <<>>, num |-> 0]
Str(v) == [type |-> "str", str |-> v, list |-> <<>>, num |-> 0]
List(v) == [type |-> "list", str |-> "", list |-> v, num |-> 0]
Num(v) == [type |-> "num", str |-> "", list |-> <<>>, num |-> v]

\* What generate_content can give: kind says whether the processor has no
\* model, the call raises, the text is empty, is not JSON, is JSON but no
\* object, or is a JSON object with the fields given.
Response(kind, categoria, tags, qualidade, resumo) ==
    [kind |-> kind, categoria |-> categoria, tags |-> tags,
     qualidade |-> qualidade, resumo |-> resumo]

NoResponse(kind) == Response(kind, Absent, Absent, Absent, Absent)

AIResponses ==
    { NoResponse("disabled"), NoResponse("raises"), NoResponse("empty"),
      NoResponse("notjson"), NoResponse("notobject"),
      Response("object", Str("Penal"), List(<<"ia">>), Num(850), Str("r")),
      Response("object", Str("Penal"), List(<<"ia">>), Num(5000), Str("r")),
      Response("object", Str("Penal"), Absent, Absent, Absent),
      Response("object", Str("Penal"), List(<<"ia">>), Str("alta"), Str("r")),
      Response("object", Str("Penal"), Str("ia"), Num(850), Str("r")) }

\* The tags a record of the model can carry, and the orders in which a
\* Python set of strings can enumerate them: the order follows the hashes
\* of the strings, which differ from one interpreter run to the next.
AllTags == {"exemplo", "ia", "articles:Artigo 5"}
SetOrders ==
    {o \in [1..Cardinality(AllTags) -> AllTags] :
        \A i, j \in DOMAIN o : o[i] = o[j] => i = j}

\* The answers the model gives during a batch: none (no API key), a text
\* that is not JSON, or the full object.
AIKinds ==
    { NoResponse("disabled"), NoResponse("notjson"),
      Response("object", Str("Penal"), List(<<"ia">>), Num(850), Str("r")) }

\* list(set(tags)): each tag once, in the order the set enumerates them.
Dedup(tags, order) ==
    LET In(t) == t \in WordsOf(tags)
    IN  SelectSeq(order, In)

\* json.loads raised JSONDecodeError and nothing catches it.
DecodeErrorEscapes(lt) == [rec |-> lt, raised |-> TRUE]

\* except json.JSONDecodeError: a warning is logged, the record is returned.
OnDecodeError(lt) == [rec |-> lt, raised |-> FALSE]

\* enhance_with_ai
enhance_with_ai(lt, resp, order) ==
    IF resp.kind \in {"disabled", "raises", "empty", "notobject"}
    THEN [rec |-> lt, raised |-> FALSE]
    ELSE IF resp.kind = "notjson"
    THEN OnDecodeError(lt)
    ELSE LET r1 == IF resp.categoria.type # "absent"
                   THEN [lt EXCEPT !.category = resp.categoria.str]
                   ELSE lt
             r2 == IF resp.tags.type = "list"
                   THEN [r1 EXCEPT !.tags = Dedup(r1.tags \o resp.tags.list, order)]
                   ELSE r1
             r3 == IF resp.qualidade.type = "num"
                   THEN [r2 EXCEPT !.quality_score =
                                      (r2.quality_score + resp.qualidade.num) \div 2]
                   ELSE r2
         IN  [rec |-> r3, raised |-> FALSE]

\* process_text: what it returns or, when it raises, what it has left in the
\* record; heur is the record as it is handed to enhance_with_ai.
process_text(lt, resp, order) ==
    LET c == clean_text(lt.content)
        t == clean_text(lt.title)
    IN  IF c.raised
        THEN [raised |-> TRUE, rec |-> lt, heur |-> lt, aiCalled |-> FALSE]
        ELSE IF t.raised
        THEN [raised |-> TRUE, rec |-> [lt EXCEPT !.content = c.text],
              heur |-> lt, aiCalled |-> FALSE]
        ELSE LET r2 == [lt EXCEPT !.content = c.text, !.title = t.text,
                                  !.word_count = Len(c.text)]
                 r3 == [r2 EXCEPT !.tags = @ \o extract_entities(r2.content)]
                 r4 == IF r3.category \in {"", "Geral"}
                       THEN [r3 EXCEPT !.category =
                                          categorize_text(r3.content, r3.title)]
                       ELSE r3
                 r5 == [r4 EXCEPT !.quality_score =
                                     calculate_enhanced_quality_score(r4)]
                 ai == enhance_with_ai(r5, resp, order)
             IN  IF ai.raised
                 THEN [raised |-> TRUE, rec |-> ai.rec, heur |-> r5,
                       aiCalled |-> resp.kind # "disabled"]
                 ELSE [raised |-> FALSE,
                       rec |-> [ai.rec EXCEPT !.is_processed = TRUE],
                       heur |-> r5, aiCalled |-> resp.kind # "disabled"]

\* A caller builds a LegalText and has it in hand.
TakeText ==
    /\ \E title \in Texts, content \in Texts, source \in Sources,
          category \in Categories, tags \in TagLists :
          doc' = [NoDoc EXCEPT
                    !.state = "taken",
                    !.rec = NewLegalText(title, content, source, "u1",
                                         category, tags, now)]
    /\ UNCHANGED <<storeVars, raceVars, orchVars, schedVars, lastProc, lastScrape,
                   lastCat, overlap>>

\* process_text is applied to the record in hand.
ProcessText ==
    /\ doc.state \in {"taken", "processed"}
    /\ doc.applied < MaxApplies
    /\ \E resp \in AIResponses, order \in SetOrders :
          LET out == process_text(doc.rec, resp, order)
          IN  doc' = [state |-> IF out.raised THEN "raised" ELSE "processed",
                      via |-> "process_text",
                      rec |-> out.rec, before |-> doc.rec, heur |-> out.heur,
                      resp |-> resp, aiCalled |-> out.aiCalled,
                      aiEver |-> doc.aiEver \/ resp.kind # "disabled",
                      applied |-> doc.applied + 1]
    /\ UNCHANGED <<storeVars, raceVars, orchVars, schedVars, lastProc, lastScrape,
                   lastCat, overlap>>

\* enhance_with_ai is applied to the record in hand.
EnhanceText ==
    /\ doc.state = "taken"
    /\ \E resp \in AIResponses, order \in SetOrders :
          LET out == enhance_with_ai(doc.rec, resp, order)
          IN  doc' = [state |-> IF out.raised THEN "raised" ELSE "enhanced",
                      via |-> "enhance_with_ai",
                      rec |-> out.rec, before |-> doc.rec, heur |-> doc.rec,
                      resp |-> resp, aiCalled |-> resp.kind # "disabled",
                      aiEver |-> resp.kind # "disabled",
                      applied |-> doc.applied]
    /\ UNCHANGED <<storeVars, raceVars, orchVars, schedVars, lastProc, lastScrape,
                   lastCat, overlap>>

NextText == TakeText \/ ProcessText \/ EnhanceText
SpecText == InitNoFile /\ [][NextText]_vars

(***************************************************************************)
(* Batch processing of the store.                                          *)
(***************************************************************************)
\* get_latest_texts: the rows as LegalText objects, latest first; the limit
\* of 1000 is beyond the tables of the model.  Rows scraped at the same
\* instant come in an order the engine chooses.
RECURSIVE LatestFirst(_)
LatestFirst(rs) ==
    IF rs = {} THEN <<>>
    ELSE LET r == CHOOSE x \in rs :
                     \A y \in rs : ~TextLess(x.date_scraped, y.date_scraped)
         IN  <<r>> \o LatestFirst(rs \ {r})

get_latest_texts(rs) ==
    LET Object(row) == [row EXCEPT !.date_scraped = fromisoformat(row.date_scraped)]
        rowSeq == LatestFirst(rs)
    IN  [k \in DOMAIN rowSeq |-> Object(rowSeq[k])]

\* The loop of process_unprocessed_texts over the records not yet handled.
\* The except branch of the loop body: the message is kept and counted.
OnTextError(acc, lt) ==
    [acc EXCEPT !.errors = Append(@, lt.url),
                !.error_count = @ + 1,
                !.raised = @ \cup {lt.url}]

\* The processed record is saved and counted when the save returns True.
SaveProcessed(acc, lt, sv) ==
    [acc EXCEPT !.rows = sv.rows,
                !.processed_count = IF sv.success THEN @ + 1 ELSE @,
                !.completed = @ \cup {lt.url}]

\* The records process_text returned during a run, kept for the properties.
Returned(acc, out) ==
    IF out.raised THEN acc.returned ELSE acc.returned \cup {out.rec}

\* The body of the loop for one record, out being what process_text gave.
ProcessOne(acc, lt, out) ==
    IF out.raised
    THEN OnTextError(acc, lt)
    ELSE SaveProcessed([acc EXCEPT !.returned = Returned(acc, out)], lt,
                       save_legal_text(acc.rows, out.rec, FALSE))

RECURSIVE ProcessEach(_, _, _, _)
ProcessEach(todo, acc, resps, order) ==
    IF todo = <<>> THEN acc
    ELSE ProcessEach(Tail(todo),
                     ProcessOne(acc, Head(todo),
                                process_text(Head(todo), resps[Head(todo).url],
                                             order)),
                     resps, order)

\* process_unprocessed_texts: the summary it returns, the table it leaves
\* and, for the properties, the records whose pipeline completed or raised.
Unprocessed(rs) ==
    LET NotProcessed(lt) == ~lt.is_processed
    IN  SelectSeq(get_latest_texts(rs), NotProcessed)

\* The results dict, with the table the run leaves.
Results(unprocessed_texts, end) ==
    [rows |-> end.rows,
     processed_count |-> end.processed_count,
     error_count |-> end.error_count,
     errors |-> end.errors,
     total_found |-> Len(unprocessed_texts),
     completed |-> end.completed,
     raised |-> end.raised,
     returned |-> end.returned,
     selected |-> {unprocessed_texts[k].url : k \in DOMAIN unprocessed_texts}]

process_unprocessed_texts(rs, resps, order) ==
    Results(Unprocessed(rs),
            ProcessEach(Unprocessed(rs),
                        [rows |-> rs, processed_count |-> 0, error_count |-> 0,
                         errors |-> <<>>, completed |-> {}, raised |-> {},
                         returned |-> {}],
                        resps, order))

\* One call of save_legal_text on a full LegalText created now.
SaveText ==
    /\ nSaves < MaxSaves
    /\ nSaves' = nSaves + 1
    /\ \E title \in Texts, content \in Texts, source \in Sources, url \in URLs :
          rows' = save_legal_text(
                      rows, NewLegalText(title, content, source, url, "", <<>>, now),
                      FALSE).rows
    /\ UNCHANGED <<now, nPurges, attempted, trues, lastSave, lastPurge, raceVars,
                   orchVars, schedVars, lastProc, doc,
                   lastScrape, lastCat, overlap>>

\* One call of process_unprocessed_texts.
ProcessUnprocessed ==
    /\ lastProc.runs < MaxRuns
    /\ \E resps \in [URLs -> AIKinds], order \in SetOrders :
          \E res \in {process_unprocessed_texts(rows, resps, order)} :
              /\ rows' = res.rows
              /\ lastProc' = [done |-> TRUE, runs |-> lastProc.runs + 1,
                              total_found |-> res.total_found,
                              processed_count |-> res.processed_count,
                              error_count |-> res.error_count,
                              errors |-> res.errors,
                              completed |-> res.completed,
                              raised |-> res.raised,
                              returned |-> res.returned,
                              selected |-> res.selected,
                              before |-> lastProc.selected]
    /\ UNCHANGED <<now, nSaves, nPurges, attempted, trues, lastSave, lastPurge,
                   raceVars, orchVars, schedVars, doc, lastScrape,
                   lastCat, overlap>>

NextProc == SaveText \/ ProcessUnprocessed
SpecProc == InitNoFile /\ [][NextProc]_vars

(***************************************************************************)
(* Properties of the content store.                                        *)
(***************************************************************************)
\* The store holds a row with the URL of lt.
UrlStored(rs, lt) == \E r \in rs : r.url = lt.url

\* The store holds a row with the content hash of lt.
HashStored(rs, lt) == \E r \in rs : r.content_hash = lt.content_hash

\* The row save_legal_text inserts for lt.
RowOf(lt) ==
    [title |-> lt.title, url |-> lt.url, content_hash |-> lt.content_hash,
     date_scraped |-> <<lt.date_scraped.day, SpaceChar, lt.date_scraped.tod>>]

\* C1 as stated: over any sequence of saves, a save returns True exactly when
\* it is the first save carrying its content hash, and a later save of the
\* same hash returns False and leaves the stored rows as they were.
C1_TrueExactlyOncePerHash ==
    lastSave.done =>
        /\ lastSave.success = (lastSave.rec.content_hash \notin lastSave.attempted)
        /\ (~lastSave.success => lastSave.after = lastSave.before)

\* C1 amended: over any sequence of saves, a save returns True at most once
\* per content hash; the first save of a hash returns True unless a row with
\* its URL is already stored or the engine raises; a save whose content hash
\* is already stored returns False and leaves every stored row unchanged.
C1_TrueAtMostOncePerHash ==
    /\ \A h \in Hashes : trues[h] <= 1
    /\ lastSave.done =>
          /\ (/\ lastSave.rec.content_hash \notin lastSave.attempted
              /\ ~UrlStored(lastSave.before, lastSave.rec)
              /\ ~lastSave.raised) => lastSave.success
          /\ HashStored(lastSave.before, lastSave.rec) =>
                /\ ~lastSave.success
                /\ lastSave.after = lastSave.before
                /\ rows = lastSave.before

\* C1 witness: a save of a stored hash under a new URL returned False after
\* the first save of that hash returned True.
C1_Witness ==
    /\ lastSave.done
    /\ ~lastSave.raised
    /\ HashStored(lastSave.before, lastSave.rec)
    /\ ~UrlStored(lastSave.before, lastSave.rec)
    /\ ~lastSave.success
    /\ trues[lastSave.rec.content_hash] = 1

C3_FalseIffDuplicate ==
    lastSave.done =>
        /\ ~lastSave.success <=>
              (UrlStored(lastSave.before, lastSave.rec)
                 \/ HashStored(lastSave.before, lastSave.rec))
        /\ (~UrlStored(lastSave.before, lastSave.rec)
              /\ ~HashStored(lastSave.before, lastSave.rec))
           => RowOf(lastSave.rec) \in lastSave.after

\* C3 amended: save returns False if and only if the store already holds a
\* row with the same URL or the same content hash or the engine raises while
\* saving; a record that duplicates neither and whose insert raises nothing
\* is inserted, unchanged, with True returned, and nothing else changes.
C3_FalseIffDuplicateOrRaised ==
    lastSave.done =>
        /\ ~lastSave.success <=>
              (\/ UrlStored(lastSave.before, lastSave.rec)
               \/ HashStored(lastSave.before, lastSave.rec)
               \/ lastSave.raised)
        /\ lastSave.success =>
              lastSave.after = lastSave.before \cup {RowOf(lastSave.rec)}
        /\ ~lastSave.success => lastSave.after = lastSave.before

\* C3 witness: a save that duplicates a stored URL under a new content hash
\* returned False.
C3_Witness ==
    /\ lastSave.done
    /\ ~lastSave.raised
    /\ UrlStored(lastSave.before, lastSave.rec)
    /\ ~HashStored(lastSave.before, lastSave.rec)
    /\ ~lastSave.success

\* C4: cleanup_old_data(days) that raises nothing deletes exactly the rows
\* scraped strictly before now - days, keeps every row scraped at or after
\* that instant, and returns the number of rows deleted.
C4_PurgesExactlyOlderThanCutoff ==
    (lastPurge.done /\ ~lastPurge.raised) =>
        /\ lastPurge.after =
              {r \in lastPurge.before :
                  ~Earlier([day |-> r.date_scraped[1], tod |-> r.date_scraped[3]],
                           lastPurge.cutoff)}
        /\ lastPurge.deleted_count =
              Cardinality(lastPurge.before \ lastPurge.after)

(***************************************************************************)
(* Properties of the scraper orchestrator.                                 *)
(***************************************************************************)
\* The sessions the current run_all_scrapers call has written.
RunSessions == SubSeq(sessions, run.firstSession, Len(sessions))

\* The error list a session row carries (NULL stands for the empty list).
SessionErrors(sess) == IF sess.errors = "NULL" THEN <<>> ELSE sess.errors

\* The sum of g[i] over the keys i in S.
RECURSIVE SumOver(_, _)
SumOver(g, S) ==
    IF S = {} THEN 0
    ELSE LET i == CHOOSE j \in S : TRUE
         IN  g[i] + SumOver(g, S \ {i})

\* How often x occurs in the sequence q.
Occurrences(q, x) == Cardinality({k \in DOMAIN q : q[k] = x})

\* C5: a finished run_all_scrapers call in which no log_scraping_session call
\* raised has written exactly one ScrapeSession per registered adapter, also
\* for an adapter that ended in the caught top-level failure, and the session
\* carries the adapter's scraped count, saved count and error list of this run.
C5_OneSessionPerAdapter ==
    (run.pc = "done" /\ \A j \in 1..NumScrapers : ~run.truth[j].logRaised) =>
        \A i \in 1..NumScrapers :
            /\ Cardinality({k \in DOMAIN RunSessions : RunSessions[k].source = i}) = 1
            /\ \A k \in DOMAIN RunSessions :
                  RunSessions[k].source = i =>
                      /\ RunSessions[k].items_scraped = run.truth[i].scraped
                      /\ RunSessions[k].items_saved = run.truth[i].saved
                      /\ SessionErrors(RunSessions[k]) = run.truth[i].errors

C7_CountsAndTotals ==
    run.pc = "done" =>
        LET sr == run.results.scraper_results
        IN  /\ \A i \in DOMAIN sr :
                  /\ sr[i].saved <= sr[i].scraped
                  /\ sr[i].scraped = run.truth[i].scraped
                  /\ sr[i].saved = run.truth[i].saved
            /\ run.results.total_scraped =
                  SumOver([i \in DOMAIN sr |-> sr[i].scraped], DOMAIN sr)
            /\ run.results.total_saved =
                  SumOver([i \in DOMAIN sr |-> sr[i].saved], DOMAIN sr)
            /\ Len(run.results.errors) =
                  SumOver([i \in 1..NumScrapers |->
                              IF run.truth[i].raised THEN 1
                              ELSE Len(run.truth[i].errors)], 1..NumScrapers)

\* C7 witness: a call returned in which both adapters scraped two candidates,
\* some save returned False, and the error list is empty.
C7_Witness ==
    /\ run.pc = "done"
    /\ run.results.errors = <<>>
    /\ run.results.total_scraped = 4
    /\ run.results.total_saved < run.results.total_scraped
    /\ run.results.total_saved > 0

(***************************************************************************)
(* Properties of the scheduler.                                            *)
(***************************************************************************)
\* The polling threads that are still in their loop.
LiveLoops == {l \in DOMAIN loops : loops[l].pc \in {"check", "pending"}}

\* C8 as stated: every finished execution of run_scraping_job, successful or
\* failed, has appended exactly one record to the run log; with no failed
\* write of the log file, the log has as many records as there were
\* executions.
C8_OneRunLogRecordPerRun ==
    jobStats.logWriteErrors = 0 => Len(runLog) = jobStats.scraping

C10_RunningOnlyWithJobsAndLoop ==
    get_status.is_running =>
        /\ jobs = <<"scraping", "health", "maintenance">>
        /\ get_status.scheduled_jobs = 3
        /\ LiveLoops # {}

\* C11 as stated: a polling thread that wakes up after a stop() issued since
\* it was spawned leaves its loop at that tick, whatever start() and stop()
\* calls followed the stop().
C11_LoopExitsAtNextTickAfterStop ==
    [][\A l \in DOMAIN loops :
          loops[l].stopped /\ loops[l].pc = "check" /\ loops'[l].pc # "check"
              => loops'[l].pc = "exited"]_vars

\* C12 as stated: once stop() has returned, a polling thread starts no further
\* job execution; every job a polling thread has started was started while
\* the scheduler was running.
C12_NoJobStartedAfterStop ==
    lastJob.done /\ lastJob.by = "loop" => lastJob.running

(***************************************************************************)
(* Properties of the curation processor.                                   *)
(***************************************************************************)
\* The fields process_text derives.
Derived(r) ==
    <<r.content, r.word_count, r.category, r.quality_score, r.tags>>

\* The fields the AI can change; tags compared as a collection.
Enhanced(r) == <<r.category, r.quality_score, WordsOf(r.tags), Len(r.tags)>>

\* C14 as stated: with the AI disabled, applying process_text to a record
\* yields a processed record, and applying it again yields the same content,
\* word count, category, quality score and tags.
C14_ProcessTextIdempotent ==
    doc.via = "process_text" /\ ~doc.aiEver
        => /\ doc.state = "processed"
           /\ doc.applied >= 2 => Derived(doc.rec) = Derived(doc.before)

\* C15 as stated: the quality score of a record is within [0, 1] after the
\* AI's 'qualidade' was merged into it, whatever number the AI returned.
C15_QualityScoreInUnitInterval ==
    doc.state \in {"processed", "enhanced"}
        => doc.rec.quality_score >= 0 /\ doc.rec.quality_score <= 1000

\* The AI's answer is a JSON object that misses one of the four fields or
\* carries one with the wrong type.
Partial(resp) ==
    /\ resp.kind = "object"
    /\ \/ resp.categoria.type # "str"
       \/ resp.tags.type # "list"
       \/ resp.qualidade.type # "num"
       \/ resp.resumo.type # "str"

\* C16 as stated: when the AI's JSON is partial or malformed, category, tags
\* and quality score remain the heuristic values.
C16_PartialAnswerEnhancesNothing ==
    doc.aiCalled /\ Partial(doc.resp)
        => Enhanced(doc.rec) = Enhanced(doc.heur)

\* The AI call failed or returned a text that is not JSON.
Unparsed(resp) == resp.kind \in {"raises", "empty", "notjson"}

\* C17: when the AI returns a text that is not JSON or the call fails,
\* enhance_with_ai raises nothing and leaves category, quality score and tags
\* as they were, and process_text still marks the record processed.
C17_UnparsedAnswerChangesNothing ==
    doc.aiCalled /\ Unparsed(doc.resp)
        => /\ doc.state # "raised"
           /\ Enhanced(doc.rec) = Enhanced(doc.heur)
           /\ doc.rec.tags = doc.heur.tags
           /\ doc.via = "process_text"
                 => doc.state = "processed" /\ doc.rec.is_processed

C17_Witness ==
    /\ doc.via = "process_text"
    /\ doc.aiCalled
    /\ doc.resp.kind = "notjson"
    /\ doc.state = "processed"
    /\ doc.rec.is_processed
    /\ doc.rec.tags # <<>>

\* C13 as stated: after a run of process_unprocessed_texts, every record
\* whose pipeline finished without error is in the store with processed =
\* true and its category, score and tags, so that the next run does not
\* select it again.
C13_CompletedRecordsStoredProcessed ==
    lastProc.done
        => /\ \A u \in lastProc.completed :
                 \E r \in rows : r.url = u /\ r.is_processed /\ r.category # ""
           /\ lastProc.runs >= 2 => lastProc.selected \cap lastProc.before = {}

\* C18 as stated: after a run, processed_count is the number of records
\* whose pipeline completed without error, error_count the number whose
\* pipeline raised, one error message is kept per failure, and the two
\* counts add up to total_found.
C18_CountsPartitionTheRecordsFound ==
    lastProc.done
        => /\ lastProc.processed_count = Cardinality(lastProc.completed)
           /\ lastProc.error_count = Cardinality(lastProc.raised)
           /\ Len(lastProc.errors) = lastProc.error_count
           /\ lastProc.processed_count + lastProc.error_count
                 = lastProc.total_found

(***************************************************************************)
(* Properties of the scheduler's configuration.                            *)
(***************************************************************************)
\* C19 as stated: after load_config every recognized option is present in
\* the configuration at every nesting level, the thresholds under
\* monitoring.alert_thresholds included.
C19_EveryOptionPresent ==
    \A key \in DOMAIN DefaultConfig :
        /\ key \in DOMAIN config
        /\ \A subkey \in DOMAIN DefaultConfig[key] :
              subkey \in DOMAIN config[key]
        /\ key = "monitoring"
              => \A threshold \in DOMAIN DefaultConfig[key].alert_thresholds :
                    threshold \in DOMAIN config[key].alert_thresholds

\* C20 as stated: after construction the configuration file holds the
\* effective configuration, also when defaults were merged into a file that
\* missed keys.
C20_FileHoldsEffectiveConfig ==
    config_file.exists /\ config_file.doc = config

(***************************************************************************)
(* Properties of the scraping job's alerts and notifications.              *)
(***************************************************************************)
\* A webhook URL is configured.
WebhookConfigured == config.monitoring.webhook_url \notin {"null", ""}

\* C21 as stated: for every execution of run_scraping_job a webhook is
\* dispatched when a webhook URL is configured, whatever the job's outcome;
\* and when the job completed, the alert list holds the low-success-rate
\* alert iff saved / max(scraped, 1) < min_success_rate and the
\* high-error-count alert iff the number of errors > max_error_count, and
\* the email is dispatched exactly when the list is non-empty and email
\* notifications are enabled.
C21_AlertsAndNotifications ==
    lastJob.done /\ lastJob.kind = "scraping"
        => /\ WebhookConfigured => lastJob.webhook_calls = 1
           /\ lastJob.status = "completed"
                 => LET th == config.monitoring.alert_thresholds
                        res == last_run_results
                        In(a) == \E k \in DOMAIN lastJob.alerts :
                                    lastJob.alerts[k] = a
                    IN  /\ In("low_success_rate")
                              <=> LowSuccessRate(res.total_saved,
                                                 res.total_scraped,
                                                 th.min_success_rate)
                        /\ In("high_error_count")
                              <=> res.errors > th.max_error_count
                        /\ lastJob.email_calls = 1
                              <=> /\ lastJob.alerts # <<>>
                                  /\ config.monitoring.email_notifications

(***************************************************************************)
(* Properties of an adapter run.                                           *)
(***************************************************************************)
\* The links the latest adapter run followed.
Followed ==
    IF lastScrape.index_ok
    THEN FirstLinks(lastScrape.pages, lastScrape.limit)
    ELSE <<>>

\* The followed pages that were fetched, processed, and whose content
\* exceeds the gate of the source: 100 characters for the courts, 200 for
\* the news sites.
AboveGate ==
    {k \in DOMAIN Followed :
        /\ Followed[k].kind.fetched
        /\ ~Followed[k].kind.raises
        /\ Followed[k].kind.length >
              (IF ScraperNames[lastScrape.adapter] \in {"STF", "STJ"}
               THEN 100 ELSE 200)}

\* The followed pages whose fetch failed or whose processing raised.
Failing ==
    {k \in DOMAIN Followed :
        ~Followed[k].kind.fetched \/ Followed[k].kind.raises}

\* C22: in an adapter run the candidates returned are the followed pages
\* above the gate, also those after a page whose fetch failed; a page at or
\* below the gate adds no error and is not counted; each failing page adds
\* one error; scraped_count is the number of candidates returned, at most
\* the limit, and saved_count is at most scraped_count.
C22_GateDropsSilently ==
    lastScrape.done
        => /\ lastScrape.returned = Cardinality(AboveGate)
           /\ lastScrape.scraped_count = lastScrape.returned
           /\ lastScrape.returned <= lastScrape.limit
           /\ lastScrape.errors = Cardinality(Failing)
                                    + (IF lastScrape.index_ok THEN 0 ELSE 1)
           /\ lastScrape.saved_count <= lastScrape.scraped_count
           /\ lastScrape.session.items_scraped = lastScrape.scraped_count
           /\ lastScrape.session.items_saved = lastScrape.saved_count

\* Three raw candidates, one of them below the gate: scraped = 2.
C22_Witness ==
    /\ lastScrape.done
    /\ lastScrape.index_ok
    /\ lastScrape.limit = 3
    /\ Len(lastScrape.pages) = 3
    /\ Failing = {}
    /\ Cardinality(AboveGate) = 2
    /\ lastScrape.scraped_count = 2
    /\ lastScrape.saved_count = 2
    /\ lastScrape.errors = 0

(***************************************************************************)
(* Properties of categorize_text.                                          *)
(***************************************************************************)
\* The number of keywords of the category at position k of the table that
\* occur in the title and text of the latest call.
Matching(k) ==
    Cardinality({kw \in Keywords[CategoryOrder[k]] :
                    Occurs(kw, lastCat.title \o lastCat.text)})

\* C23: categorize_text returns the same category for the same title and
\* text; the category has the highest number of matching keywords, is the
\* earliest of the table among those with that number, and is 'Geral' when
\* no keyword of any category matches.
C23_CategorizeTextByScore ==
    lastCat.done
        => /\ lastCat.again = lastCat.category
           /\ IF \A k \in DOMAIN CategoryOrder : Matching(k) = 0
              THEN lastCat.category = "Geral"
              ELSE \E k \in DOMAIN CategoryOrder :
                      /\ lastCat.category = CategoryOrder[k]
                      /\ Matching(k) > 0
                      /\ \A j \in DOMAIN CategoryOrder :
                            /\ Matching(j) <= Matching(k)
                            /\ j < k => Matching(j) < Matching(k)

\* A tie between two categories: the earlier one of the table is returned.
C23_Witness ==
    /\ lastCat.done
    /\ Matching(2) = 1
    /\ Matching(3) = 1
    /\ Matching(1) = 0
    /\ lastCat.category = "Civil"

(***************************************************************************)
(* Properties of the tags and the word count.                              *)
(***************************************************************************)
\* The tags entity extraction appended during the latest process_text.
AddedByExtraction ==
    SubSeq(doc.heur.tags, Len(doc.before.tags) + 1, Len(doc.heur.tags))

\* C24 as stated: after process_text the record's tag list holds no tag
\* twice, whatever tags the record carried before, and the tags entity
\* extraction added are of the form type:value, at most 3 of a type.
C24_TagsWithoutDuplicates ==
    doc.via = "process_text" /\ doc.state = "processed"
        => /\ \A i, j \in DOMAIN doc.rec.tags :
                 doc.rec.tags[i] = doc.rec.tags[j] => i = j
           /\ WordsOf(AddedByExtraction) \subseteq {"articles:Artigo 5"}
           /\ Len(AddedByExtraction) <= 3

\* C25: the word count of every record process_text returned and of every
\* row of the store, after any sequence of saves of newly created records
\* and of processing runs, is the number of words of its content.
C25_WordCountIsTokenCount ==
    /\ \A r \in rows : r.word_count = Len(r.content)
    /\ \A r \in lastProc.returned : r.word_count = Len(r.content)

\* A row with a content of two words is stored beside a record that
\* process_text returned.
C25_Witness ==
    /\ \E r \in rows : Len(r.content) = 2 /\ r.word_count = 2
    /\ lastProc.done
    /\ lastProc.returned # {}

\* C28 as stated: after process_text with the AI disabled the record's
\* category is categorize_text(cleaned content, cleaned title), whatever
\* category the record carried before.
C28_CategoryIsRecomputed ==
    /\ doc.via = "process_text"
    /\ doc.state = "processed"
    /\ doc.resp.kind = "disabled"
    => doc.rec.category = categorize_text(doc.rec.content, doc.rec.title)

(***************************************************************************)
(* Properties of overlapping executions of the scraping job.               *)
(***************************************************************************)
\* C26 as stated: also when two executions overlap, what each of them
\* reports for an adapter is items_scraped = the number of candidates its
\* own scrape() call returned and items_saved = the number of its own saves
\* that returned True, with items_saved <= items_scraped.
C26_OverlappingRunsReportTheirOwnCounts ==
    \A r \in RunIds :
        \A k \in DOMAIN overlap[r].reports :
            /\ overlap[r].reports[k].scraped = overlap[r].reports[k].returned
            /\ overlap[r].reports[k].saved = overlap[r].reports[k].trues
            /\ overlap[r].reports[k].saved <= overlap[r].reports[k].scraped

\* C27 as stated: across any sequence of start() and stop() calls, at most
\* one polling loop is alive at any time.
C27_AtMostOneLiveLoop == Cardinality(LiveLoops) <= 1

\* C29 as stated: when database.cleanup_enabled is false, no job of the
\* scheduler, the scraping job or the weekly maintenance job, deletes a
\* record from the store.
C29_NoPurgeWhenRetentionDisabled ==
    lastJob.done /\ ~config.database.cleanup_enabled => lastJob.deleted = 0

\* C30 as stated: run_manual_scraping(limit_per_scraper = L) runs the
\* orchestrator with the per-adapter limit L, and with the configured
\* scraping.limit_per_scraper only when no L is given.
C30_ManualLimitIsUsed ==
    lastJob.done /\ lastJob.by = "manual"
        => lastJob.limit = IF lastJob.asked.given
                           THEN lastJob.asked.value
                           ELSE config.scraping.limit_per_scraper

====
